---- MODULE Spec2Model ----
(***************************************************************************)
(* Model of the in-page search of the crystal frontend:                    *)
(*   - searchUtils  (pattern builder, flattener, matcher, highlighter),    *)
(*   - useSearch    (the navigation state machine),                        *)
(*   - useRichOutputSearch (the document-subtree backend).                 *)
(*                                                                         *)
(* Strings are sequences of one-character strings.  A DOM element is a     *)
(* sequence of child nodes; every node is a record                         *)
(*   [k, t, id, cur, kids]                                                 *)
(* with k = "text"   a Text node holding t,                                *)
(*      k = "hl"     a span.search-highlight holding the text t, tagged    *)
(*                   data-search-match = id, cur = it also carries the     *)
(*                   class search-highlight-current,                       *)
(*      k = "el"     a nested content element (its children in kids),      *)
(*      k = "script" a script/style element (its children in kids).        *)
(***************************************************************************)
EXTENDS Integers, Sequences, FiniteSets, TLC

VARIABLES
    searchState,          \* useSearch: useState<SearchState>
    matches,              \* useSearch: useState<SearchMatch[]>
    timers,               \* pending setTimeout(..., 0) callbacks, oldest first
    backend,              \* which hook owns the search: "document" or "terminal"
    dom,                  \* the searchable elements under containerRef.current
    mounted,              \* containerRef.current is not null
    term,                 \* useTerminalSearch: the terminal, its addon, the selection
    allMatchesRef,        \* useRichOutputSearch: allMatchesRef.current
    currentContainerRef,  \* useRichOutputSearch: currentContainerRef.current is set
    lastOp,               \* the name of the operation that produced this state
    calls,                \* the backend callbacks that operation invoked, in order
    navRun,               \* the current run of consecutive same-direction navigations
    hlTree,               \* renderer harness: the subtree under test
    hlOrig,               \* renderer harness: the subtree as first given
    hlMatches,            \* renderer harness: the match list
    hlCur,                \* renderer harness: currentMatchIndex (Undefined = none)
    hlOnce,               \* renderer harness: the subtree after the first highlightMatches
    hlLog,                \* renderer harness: the calls applied so far
    fTree,                \* matcher harness: the element searched
    fQuery,               \* matcher harness: the query
    fOptions,             \* matcher harness: the options
    fMatches,             \* matcher harness: what findTextMatches returned
    fDone,                \* matcher harness: findTextMatches has run
    fLastIndex            \* matcher harness: regex.lastIndex

navVars == <<searchState, matches, timers, backend, dom, mounted, term, allMatchesRef,
             currentContainerRef, lastOp, calls, navRun>>
hlVars == <<hlTree, hlOrig, hlMatches, hlCur, hlOnce, hlLog>>
findVars == <<fTree, fQuery, fOptions, fMatches, fDone, fLastIndex>>
vars == <<searchState, matches, timers, backend, dom, mounted, term, allMatchesRef,
          currentContainerRef, lastOp, calls, navRun,
          hlTree, hlOrig, hlMatches, hlCur, hlOnce, hlLog,
          fTree, fQuery, fOptions, fMatches, fDone, fLastIndex>>

(***************************************************************************)
(* Bounds of the model.                                                    *)
(***************************************************************************)
\* At most this many re-search timers are pending at once.
MaxTimers == 1

(***************************************************************************)
(* Strings.                                                                *)
(***************************************************************************)
LowerCase == <<"a", "b", "c", "f", "g", "l", "o", "s", "t">>
UpperCase == <<"A", "B", "C", "F", "G", "L", "O", "S", "T">>
Digits == {"0", "1", "2", "3", "4", "5", "6", "7", "8", "9"}
WhiteSpace == {" ", "\t", "\n"}

Range(s) == {s[i] : i \in DOMAIN s}

Min(a, b) == IF a < b THEN a ELSE b
Max(a, b) == IF a > b THEN a ELSE b

RECURSIVE Concat(_)
Concat(ss) == IF ss = <<>> THEN <<>> ELSE Head(ss) \o Concat(Tail(ss))

\* the function as a sequence value
AsSeq(f) == SubSeq(f, 1, Len(f))

Reverse(s) == AsSeq([i \in 1..Len(s) |-> s[Len(s) + 1 - i]])

\* String.prototype.trim() yields the empty string
TrimsToEmpty(s) == \A i \in DOMAIN s : s[i] \in WhiteSpace

\* String.prototype.substring(start, end): both clamped to 0..length, swapped
\* when start > end.  Offsets are 0-based, end exclusive.
Substring(s, start, end) ==
    LET a == Max(0, Min(start, Len(s)))
        b == Max(0, Min(end, Len(s)))
    IN  SubSeq(s, Min(a, b) + 1, Max(a, b))

\* the case folding of the "i" flag
Canonicalize(c) ==
    IF \E i \in DOMAIN UpperCase : UpperCase[i] = c
    THEN LowerCase[CHOOSE i \in DOMAIN UpperCase : UpperCase[i] = c]
    ELSE c

\* \w of the pattern language
WordChars == Range(LowerCase) \cup Range(UpperCase) \cup Digits \cup {"_"}
IsWordChar(c) == c \in WordChars

(***************************************************************************)
(* Pattern Builder: escapeRegExp, createSearchRegex, new RegExp.           *)
(***************************************************************************)
RegexSpecials == {".", "*", "+", "?", "^", "$", "{", "}", "(", ")", "|", "[", "]", "\\"}

RECURSIVE escapeRegExp(_)
escapeRegExp(string) ==
    IF string = <<>> THEN <<>>
    ELSE (IF Head(string) \in RegexSpecials
          THEN <<"\\", Head(string)>> ELSE <<Head(string)>>)
         \o escapeRegExp(Tail(string))

\* Mutant of createSearchRegex: the "i" flag is always set.
createSearchRegexAlwaysIgnoresCase(query, options) ==
    LET pattern == escapeRegExp(query)
    IN  [pattern |-> IF options.wholeWord
                     THEN <<"\\", "b">> \o pattern \o <<"\\", "b">>
                     ELSE pattern,
         ignoreCase |-> TRUE]

\* Mutant of createSearchRegex: wholeWord does not add the word boundaries.
createSearchRegexWithoutBoundaries(query, options) ==
    [pattern |-> escapeRegExp(query), ignoreCase |-> ~options.caseSensitive]

createSearchRegex(query, options) ==
    LET pattern == escapeRegExp(query)
    IN  [pattern |-> IF options.wholeWord
                     THEN <<"\\", "b">> \o pattern \o <<"\\", "b">>
                     ELSE pattern,
         ignoreCase |-> ~options.caseSensitive]

\* The atoms of a compiled pattern: "\b" is the word-boundary assertion, any
\* other escaped character is that literal character, an unescaped "." is the
\* wildcard, anything else a literal.
RECURSIVE CompilePattern(_)
CompilePattern(p) ==
    IF p = <<>> THEN <<>>
    ELSE IF Head(p) = "\\" /\ Len(p) >= 2
         THEN <<(IF p[2] = "b" THEN [a |-> "wb", c |-> ""]
                               ELSE [a |-> "lit", c |-> p[2]])>>
              \o CompilePattern(Tail(Tail(p)))
         ELSE <<(IF Head(p) = "." THEN [a |-> "any", c |-> ""]
                                  ELSE [a |-> "lit", c |-> Head(p)])>>
              \o CompilePattern(Tail(p))

\* \b at offset p of text: exactly one side of p is a word character
IsWordBoundary(text, p) ==
    LET before == p >= 1 /\ IsWordChar(text[p])
        after == p < Len(text) /\ IsWordChar(text[p + 1])
    IN  before # after

\* The offset at which the atoms, tried at offset p of text, stop matching,
\* or -1 when they do not match there.
RECURSIVE MatchAt(_, _, _, _)
MatchAt(atoms, text, p, ignoreCase) ==
    IF atoms = <<>> THEN p
    ELSE LET atom == Head(atoms) IN
         IF atom.a = "wb"
         THEN IF IsWordBoundary(text, p)
              THEN MatchAt(Tail(atoms), text, p, ignoreCase) ELSE -1
         ELSE IF p >= Len(text) THEN -1
         ELSE IF atom.a = "any"
         THEN IF text[p + 1] # "\n"
              THEN MatchAt(Tail(atoms), text, p + 1, ignoreCase) ELSE -1
         ELSE IF (IF ignoreCase
                  THEN Canonicalize(text[p + 1]) = Canonicalize(atom.c)
                  ELSE text[p + 1] = atom.c)
              THEN MatchAt(Tail(atoms), text, p + 1, ignoreCase) ELSE -1

\* RegExp.prototype.exec with the "g" flag: the leftmost match starting at or
\* after lastIndex, or null (index = -1).
RegexExec(regex, text, lastIndex) ==
    LET atoms == CompilePattern(regex.pattern)
        starts == {i \in lastIndex..Len(text) :
                       MatchAt(atoms, text, i, regex.ignoreCase) # -1}
    IN  IF starts = {} THEN [index |-> -1, end |-> -1]
        ELSE LET i == CHOOSE j \in starts : \A k \in starts : j <= k
             IN  [index |-> i, end |-> MatchAt(atoms, text, i, regex.ignoreCase)]

(***************************************************************************)
(* DOM nodes.                                                              *)
(***************************************************************************)
Undefined == -1

TextNode(s) == [k |-> "text", t |-> s, id |-> "", cur |-> FALSE, kids |-> <<>>]
HighlightSpan(s, id, cur) == [k |-> "hl", t |-> s, id |-> id, cur |-> cur, kids |-> <<>>]
ContentElement(kids) == [k |-> "el", t |-> <<>>, id |-> "", cur |-> FALSE, kids |-> kids]
ScriptElement(kids) == [k |-> "script", t |-> <<>>, id |-> "", cur |-> FALSE, kids |-> kids]

IsContainerNode(n) == n.k \in {"el", "script"}

\* TreeWalker(element, SHOW_TEXT): the contents of the Text nodes below the
\* given child list, in document order (script/style text included).
RECURSIVE WalkTextNodes(_)
WalkTextNodes(nodes) ==
    IF nodes = <<>> THEN <<>>
    ELSE LET n == Head(nodes) IN
         (IF n.k = "text" THEN <<n.t>>
          ELSE IF n.k = "hl" THEN (IF n.t = <<>> THEN <<>> ELSE <<n.t>>)
          ELSE WalkTextNodes(n.kids))
         \o WalkTextNodes(Tail(nodes))

\* the concatenation of the text leaves in document order
FlatText(nodes) == Concat(WalkTextNodes(nodes))

\* the decorations below the given child list, in document order
RECURSIVE Decorations(_)
Decorations(nodes) ==
    IF nodes = <<>> THEN <<>>
    ELSE LET n == Head(nodes) IN
         (IF n.k = "hl" THEN <<n>>
          ELSE IF IsContainerNode(n) THEN Decorations(n.kids)
          ELSE <<>>)
         \o Decorations(Tail(nodes))

\* the clone with every script and style element removed
RECURSIVE RemoveScripts(_)
RemoveScripts(nodes) ==
    IF nodes = <<>> THEN <<>>
    ELSE LET n == Head(nodes) IN
         (IF n.k = "script" THEN <<>>
          ELSE IF n.k = "el" THEN <<[n EXCEPT !.kids = RemoveScripts(n.kids)]>>
          ELSE <<n>>)
         \o RemoveScripts(Tail(nodes))

extractTextContent(element) == FlatText(RemoveScripts(element))

(***************************************************************************)
(* Matcher: findTextMatches.                                               *)
(***************************************************************************)
\* the template literal `${elementId}-${n}`
MatchId(elementId, n) == elementId \o "-" \o ToString(n)

\* the while loop of findTextMatches, entered with regex.lastIndex = lastIndex
\* and the matches pushed so far in acc
RECURSIVE FindLoop(_, _, _, _, _, _)
FindLoop(text, regex, elementId, element, lastIndex, acc) ==
    LET match == RegexExec(regex, text, lastIndex)
    IN  IF lastIndex > Len(text) \/ match.index = -1 THEN acc
        ELSE FindLoop(text, regex, elementId, element,
                      \* a zero-length match forces lastIndex forward
                      IF match.index = match.end THEN match.end + 1 ELSE match.end,
                      Append(acc, [id |-> MatchId(elementId, Len(acc)),
                                   element |-> element,
                                   text |-> Substring(text, match.index, match.end),
                                   startIndex |-> match.index,
                                   endIndex |-> match.end]))

\* element: the element's position in the container, which stands for the
\* reference stored in SearchMatch.element; tree: its children
findTextMatches(element, tree, query, options, elementId) ==
    FindLoop(extractTextContent(tree), createSearchRegex(query, options),
             elementId, element, 0, <<>>)

(***************************************************************************)
(* Highlight Renderer: removeHighlights, highlightMatches,                 *)
(* updateCurrentMatch.                                                     *)
(***************************************************************************)
\* Node.normalize(): in the whole subtree, empty Text nodes are removed and
\* adjacent Text nodes merged
RECURSIVE Normalize(_)
Normalize(nodes) ==
    IF nodes = <<>> THEN <<>>
    ELSE LET n == Head(nodes)
             rest == Normalize(Tail(nodes))
         IN  IF n.k = "text"
             THEN IF n.t = <<>> THEN rest
                  ELSE IF rest # <<>> /\ Head(rest).k = "text"
                       THEN <<TextNode(n.t \o Head(rest).t)>> \o Tail(rest)
                       ELSE <<n>> \o rest
             ELSE IF IsContainerNode(n)
                  THEN <<[n EXCEPT !.kids = Normalize(n.kids)]>> \o rest
                  ELSE <<n>> \o rest

HasHighlightChild(nodes) == \E i \in DOMAIN nodes : nodes[i].k = "hl"

\* Mutant of ReplaceHighlightChildren: the replacement Text node is created
\* without the decoration's text.
ReplaceHighlightChildrenDropsText(nodes) ==
    AsSeq([i \in DOMAIN nodes |-> IF nodes[i].k = "hl" THEN TextNode(<<>>) ELSE nodes[i]])

\* parent.replaceChild(document.createTextNode(highlight.textContent), highlight)
\* for every highlight child of one parent
ReplaceHighlightChildren(nodes) ==
    AsSeq([i \in DOMAIN nodes |->
              IF nodes[i].k = "hl" THEN TextNode(nodes[i].t) ELSE nodes[i]])

\* Every .search-highlight below the element is replaced by a Text node and the
\* parent it had is normalized.
RECURSIVE removeHighlights(_)
removeHighlights(element) ==
    LET inner == AsSeq([i \in DOMAIN element |->
                     IF IsContainerNode(element[i])
                     THEN [element[i] EXCEPT !.kids = removeHighlights(element[i].kids)]
                     ELSE element[i]])
    IN  IF HasHighlightChild(element)
        THEN Normalize(ReplaceHighlightChildren(inner))
        ELSE inner

\* insertion of m into a list sorted by descending startIndex, after the
\* entries that compare equal (Array.prototype.sort is stable)
RECURSIVE InsertDescending(_, _)
InsertDescending(sorted, m) ==
    IF sorted = <<>> THEN <<m>>
    ELSE IF Head(sorted).startIndex >= m.startIndex
         THEN <<Head(sorted)>> \o InsertDescending(Tail(sorted), m)
         ELSE <<m>> \o sorted

\* [...matches].sort((a, b) => b.startIndex - a.startIndex)
RECURSIVE SortDescending(_)
SortDescending(ms) ==
    IF ms = <<>> THEN <<>>
    ELSE InsertDescending(SortDescending(SubSeq(ms, 1, Len(ms) - 1)), ms[Len(ms)])

\* matches.findIndex(m => m.id === id), 0-based, -1 when absent
FindIndexById(ms, id) ==
    IF \E i \in DOMAIN ms : ms[i].id = id
    THEN (CHOOSE i \in DOMAIN ms : ms[i].id = id /\ \A j \in 1..(i - 1) : ms[j].id # id) - 1
    ELSE -1

\* what one Text node of the walk is replaced by (the body of the for loop)
HighlightTextNode(nodeText, nodeStart, ms, sortedMatches, currentMatchIndex) ==
    LET nodeEnd == nodeStart + Len(nodeText)
        InNode(m) == m.startIndex >= nodeStart /\ m.endIndex <= nodeEnd
        nodeMatches == SelectSeq(sortedMatches, InNode)
    IN  IF nodeMatches = <<>> THEN <<TextNode(nodeText)>>
        ELSE \* only the first match of the reversed list is processed (break)
             LET match == Head(Reverse(nodeMatches))
                 relativeStart == match.startIndex - nodeStart
                 relativeEnd == match.endIndex - nodeStart
                 beforeText == Substring(nodeText, 0, relativeStart)
                 matchText == Substring(nodeText, relativeStart, relativeEnd)
                 afterText == Substring(nodeText, relativeEnd, Len(nodeText))
                 isCurrent == /\ currentMatchIndex # Undefined
                              /\ FindIndexById(ms, match.id) = currentMatchIndex
             IN  (IF beforeText # <<>> THEN <<TextNode(beforeText)>> ELSE <<>>)
                 \o <<HighlightSpan(matchText, match.id, isCurrent)>>
                 \o (IF afterText # <<>> THEN <<TextNode(afterText)>> ELSE <<>>)

\* the walk over the Text nodes collected before any mutation;
\* currentTextOffset = offset on entry
RECURSIVE HighlightWalk(_, _, _, _, _)
HighlightWalk(nodes, offset, ms, sortedMatches, currentMatchIndex) ==
    IF nodes = <<>> THEN <<>>
    ELSE LET n == Head(nodes) IN
         (IF n.k = "text"
          THEN HighlightTextNode(n.t, offset, ms, sortedMatches, currentMatchIndex)
          ELSE IF IsContainerNode(n)
               THEN <<[n EXCEPT !.kids = HighlightWalk(n.kids, offset, ms, sortedMatches,
                                                       currentMatchIndex)]>>
               ELSE <<n>>)
         \o HighlightWalk(Tail(nodes), offset + Len(FlatText(<<n>>)), ms, sortedMatches,
                          currentMatchIndex)

highlightMatches(element, ms, currentMatchIndex) ==
    LET cleared == removeHighlights(element)
    IN  IF ms = <<>> THEN cleared
        ELSE HighlightWalk(cleared, 0, ms, SortDescending(ms), currentMatchIndex)

\* classList.remove('search-highlight-current') on every decoration
RECURSIVE ClearCurrent(_)
ClearCurrent(nodes) ==
    AsSeq([i \in DOMAIN nodes |->
        IF nodes[i].k = "hl" THEN [nodes[i] EXCEPT !.cur = FALSE]
        ELSE IF IsContainerNode(nodes[i])
             THEN [nodes[i] EXCEPT !.kids = ClearCurrent(nodes[i].kids)]
             ELSE nodes[i]])

HasDecoration(nodes, id) == \E i \in DOMAIN Decorations(nodes) : Decorations(nodes)[i].id = id

\* querySelector(`[data-search-match="${id}"]`).classList.add(...): the first
\* decoration in document order that carries the id
RECURSIVE MarkCurrent(_, _)
MarkCurrent(nodes, id) ==
    IF nodes = <<>> THEN <<>>
    ELSE LET n == Head(nodes) IN
         IF n.k = "hl" /\ n.id = id
         THEN <<[n EXCEPT !.cur = TRUE]>> \o Tail(nodes)
         ELSE IF IsContainerNode(n) /\ HasDecoration(n.kids, id)
              THEN <<[n EXCEPT !.kids = MarkCurrent(n.kids, id)]>> \o Tail(nodes)
              ELSE <<n>> \o MarkCurrent(Tail(nodes), id)

\* Mutant of updateCurrentMatch: the class is not removed from the decoration
\* that holds it.
updateCurrentMatchKeepsOld(element, ms, currentMatchIndex) ==
    IF currentMatchIndex >= 0 /\ currentMatchIndex < Len(ms)
    THEN MarkCurrent(element, ms[currentMatchIndex + 1].id)
    ELSE element

updateCurrentMatch(element, ms, currentMatchIndex) ==
    LET cleared == ClearCurrent(element)
    IN  IF currentMatchIndex >= 0 /\ currentMatchIndex < Len(ms)
        THEN MarkCurrent(cleared, ms[currentMatchIndex + 1].id)
        ELSE cleared

(***************************************************************************)
(* Document-subtree backend: the callbacks of useRichOutputSearch.         *)
(* Each takes the backend state b = [dom, allMatchesRef,                   *)
(* currentContainerRef, term] and yields the state it leaves.              *)
(***************************************************************************)
\* the template literal `search-element-${index}`
\* Mutant of ElementId: the index of the element is left out of the prefix.
ElementIdWithoutIndex(index) == "search-element"

ElementId(index) == "search-element-" \o ToString(index)

\* allMatches.filter(m => m.element === element)
ElementMatches(ms, element) == SelectSeq(ms, LAMBDA m : m.element = element)

\* allMatches.forEach((match, index) => highlightMatches(match.element,
\* elementMatches, index === 0 ? 0 : undefined)), from the index-th match on
RECURSIVE HighlightEach(_, _, _)
HighlightEach(d, allMatches, index) ==
    IF index >= Len(allMatches) THEN d
    ELSE LET match == allMatches[index + 1]
             e == match.element + 1
         IN  HighlightEach(
                 AsSeq([d EXCEPT ![e] = highlightMatches(d[e],
                                            ElementMatches(allMatches, match.element),
                                            IF index = 0 THEN 0 ELSE Undefined)]),
                 allMatches, index + 1)

\* Mutant of onSearch: the search runs although containerRef.current is null.
onSearchIgnoresMissingContainer(b, isMounted, query, options) ==
    LET cleared == IF b.currentContainerRef
                   THEN AsSeq([i \in DOMAIN b.dom |-> removeHighlights(b.dom[i])])
                   ELSE b.dom
        allMatches == Concat(AsSeq([i \in DOMAIN cleared |->
                          findTextMatches(i - 1, cleared[i], query, options,
                                          ElementId(i - 1))]))
    IN  [result |-> allMatches,
         b |-> [b EXCEPT !.dom = HighlightEach(cleared, allMatches, 0),
                         !.allMatchesRef = allMatches,
                         !.currentContainerRef = TRUE]]

onSearch(b, isMounted, query, options) ==
    IF ~isMounted THEN [result |-> <<>>, b |-> b]
    ELSE LET cleared == IF b.currentContainerRef
                        THEN AsSeq([i \in DOMAIN b.dom |-> removeHighlights(b.dom[i])])
                        ELSE b.dom
             allMatches == Concat(AsSeq([i \in DOMAIN cleared |->
                               findTextMatches(i - 1, cleared[i], query, options,
                                               ElementId(i - 1))]))
         IN  [result |-> allMatches,
              b |-> [b EXCEPT !.dom = HighlightEach(cleared, allMatches, 0),
                              !.allMatchesRef = allMatches,
                              !.currentContainerRef = TRUE]]

\* Mutant of UpdateEach: only the element that owns the target match is updated.
UpdateEachOnlyTarget(d, allMatches, id) ==
    AsSeq([i \in DOMAIN d |->
        IF \E j \in DOMAIN allMatches : allMatches[j].element = i - 1 /\ allMatches[j].id = id
        THEN LET elementMatches == ElementMatches(allMatches, i - 1)
             IN  updateCurrentMatch(d[i], elementMatches, FindIndexById(elementMatches, id))
        ELSE d[i]])

\* allMatchesRef.current.forEach(m => ...updateCurrentMatch(m.element, ...)):
\* every element that owns a match is updated once
UpdateEach(d, allMatches, id) ==
    AsSeq([i \in DOMAIN d |->
        IF \E j \in DOMAIN allMatches : allMatches[j].element = i - 1
        THEN LET elementMatches == ElementMatches(allMatches, i - 1)
             IN  updateCurrentMatch(d[i], elementMatches, FindIndexById(elementMatches, id))
        ELSE d[i]])

\* match: the sequence holding the match, empty for null
onNavigate(b, isMounted, match, direction) ==
    IF match = <<>> \/ ~isMounted THEN b
    ELSE IF FindIndexById(b.allMatchesRef, match[1].id) >= 0
         THEN [b EXCEPT !.dom = UpdateEach(b.dom, b.allMatchesRef, match[1].id)]
         ELSE b

\* Mutant of onClose: the refs are reset but the highlights stay.
onCloseKeepsHighlights(b) ==
    [b EXCEPT !.allMatchesRef = <<>>, !.currentContainerRef = FALSE]

onClose(b) ==
    [b EXCEPT !.dom = IF b.currentContainerRef
                      THEN AsSeq([i \in DOMAIN b.dom |-> removeHighlights(b.dom[i])])
                      ELSE b.dom,
              !.allMatchesRef = <<>>,
              !.currentContainerRef = FALSE]

(***************************************************************************)
(* Terminal-widget backend: the callbacks of useTerminalSearch.  The       *)
(* terminal part of the backend state is b.term = [terminal, addon,        *)
(* selection]: terminalRef.current is set, searchAddonRef.current is set,  *)
(* and the offset in the buffer of the occurrence the addon has selected   *)
(* (Undefined = none).                                                     *)
(***************************************************************************)
\* what the terminal shows: "ab Ab"
TermBuffer == <<"a", "b", " ", "A", "b">>

\* the offsets at which the addon finds the text in the buffer
Occurrences(text, options) ==
    LET found == FindLoop(TermBuffer, createSearchRegex(text, options), "", 0, 0, <<>>)
    IN  {found[i].startIndex : i \in DOMAIN found}

\* SearchAddon.findNext: the search cursor moves to the next occurrence after
\* the selected one, wrapping to the first; found = an occurrence exists
NextOccurrence(selection, text, occ) ==
    IF text = <<>> \/ occ = {} THEN [found |-> FALSE, selection |-> Undefined]
    ELSE [found |-> TRUE,
          selection |-> IF \E o \in occ : o > selection
                        THEN CHOOSE o \in occ : o > selection /\ \A x \in occ : x > selection => o <= x
                        ELSE CHOOSE o \in occ : \A x \in occ : o <= x]

findNext(selection, text, options) ==
    NextOccurrence(selection, text, Occurrences(text, options))

\* SearchAddon.findPrevious: the search cursor moves to the occurrence before
\* the selected one, wrapping to the last
PreviousOccurrence(selection, text, occ) ==
    IF text = <<>> \/ occ = {} THEN [found |-> FALSE, selection |-> Undefined]
    ELSE [found |-> TRUE,
          selection |-> IF selection # Undefined /\ \E o \in occ : o < selection
                        THEN CHOOSE o \in occ : o < selection /\ \A x \in occ : x < selection => o >= x
                        ELSE CHOOSE o \in occ : \A x \in occ : o >= x]

findPrevious(selection, text, options) ==
    PreviousOccurrence(selection, text, Occurrences(text, options))

\* SearchAddon.clearDecorations: no call of the hook asks the addon for
\* decorations, so there are none to dispose; the selection stays
clearDecorations(t) == t

\* the rest of onSearch once findNext has returned next
TerminalMatches(b, query, next) ==
    [result |-> IF next.found
                THEN <<[id |-> "terminal-match-0", element |-> 0, text |-> query,
                        startIndex |-> 0, endIndex |-> Len(query)]>>
                ELSE <<>>,
     b |-> [b EXCEPT !.term.selection = next.selection]]

terminalOnSearch(b, query, options) ==
    IF ~b.term.terminal \/ ~b.term.addon \/ TrimsToEmpty(query)
    THEN [result |-> <<>>, b |-> b]
    ELSE TerminalMatches([b EXCEPT !.term = clearDecorations(b.term)], query,
                         findNext(clearDecorations(b.term).selection, query, options))

terminalOnNavigate(b, match, direction) ==
    IF ~b.term.addon \/ match = <<>> THEN b
    ELSE [b EXCEPT !.term.selection =
             (IF direction = "next"
              THEN findNext(b.term.selection, match[1].text,
                            [caseSensitive |-> FALSE, wholeWord |-> FALSE])
              ELSE findPrevious(b.term.selection, match[1].text,
                                [caseSensitive |-> FALSE, wholeWord |-> FALSE])).selection]

terminalOnClose(b) ==
    IF b.term.addon THEN [b EXCEPT !.term = clearDecorations(b.term)] ELSE b

\* searchInTerminal: b after the call (its result, found, is not used)
searchInTerminal(b, query, direction, options) ==
    IF ~b.term.addon \/ TrimsToEmpty(query) THEN b
    ELSE [b EXCEPT !.term.selection =
             (IF direction = "next"
              THEN findNext(b.term.selection, query, options)
              ELSE findPrevious(b.term.selection, query, options)).selection]

(***************************************************************************)
(* Navigation state: useSearch.                                            *)
(***************************************************************************)
Backend == [dom |-> dom, allMatchesRef |-> allMatchesRef,
            currentContainerRef |-> currentContainerRef, term |-> term]

SetBackend(b) ==
    /\ dom' = b.dom
    /\ allMatchesRef' = b.allMatchesRef
    /\ currentContainerRef' = b.currentContainerRef
    /\ term' = b.term

\* options.onSearch, options.onNavigate, options.onClose: the callbacks of the
\* hook that called useSearch
optionsOnSearch(b, query, options) ==
    IF backend = "terminal" THEN terminalOnSearch(b, query, options)
    ELSE onSearch(b, mounted, query, options)

optionsOnNavigate(b, match, direction) ==
    IF backend = "terminal" THEN terminalOnNavigate(b, match, direction)
    ELSE onNavigate(b, mounted, match, direction)

optionsOnClose(b) ==
    IF backend = "terminal" THEN terminalOnClose(b) ELSE onClose(b)

\* match: the match passed to onNavigate; result: the list onSearch returned
SearchCall(query, options, result) ==
    [fn |-> "onSearch", query |-> query, caseSensitive |-> options.caseSensitive,
     wholeWord |-> options.wholeWord, match |-> <<>>, direction |-> "",
     result |-> result]
NavigateCall(match, direction) ==
    [fn |-> "onNavigate", query |-> <<>>, caseSensitive |-> FALSE,
     wholeWord |-> FALSE, match |-> <<match>>, direction |-> direction,
     result |-> <<>>]
CloseCall ==
    [fn |-> "onClose", query |-> <<>>, caseSensitive |-> FALSE,
     wholeWord |-> FALSE, match |-> <<>>, direction |-> "", result |-> <<>>]

NoRun == [dir |-> "", seq |-> <<>>]

\* Mutant of performSearch: totalMatches is taken from the match list of the
\* current render instead of the list the search returned.
performSearchStaleTotal(query, options) ==
    IF TrimsToEmpty(query)
    THEN /\ matches' = <<>>
         /\ searchState' = [searchState EXCEPT !.query = query,
                                               !.currentMatch = 0,
                                               !.totalMatches = 0]
         /\ calls' = <<>>
         /\ UNCHANGED <<dom, allMatchesRef, currentContainerRef, term>>
    ELSE LET found == optionsOnSearch(Backend, query, options)
             searchMatches == found.result
         IN  /\ matches' = searchMatches
             /\ searchState' = [searchState EXCEPT
                    !.query = query,
                    !.currentMatch = IF Len(searchMatches) > 0 THEN 1 ELSE 0,
                    !.totalMatches = Len(matches)]
             /\ IF Len(searchMatches) > 0
                THEN /\ SetBackend(optionsOnNavigate(found.b, <<searchMatches[1]>>, "next"))
                     /\ calls' = <<SearchCall(query, options, searchMatches),
                                   NavigateCall(searchMatches[1], "next")>>
                ELSE /\ SetBackend(found.b)
                     /\ calls' = <<SearchCall(query, options, searchMatches)>>

\* Mutant of performSearch: the query is tested without trimming.
performSearchNoTrim(query, options) ==
    IF query = <<>>
    THEN /\ matches' = <<>>
         /\ searchState' = [searchState EXCEPT !.query = query,
                                               !.currentMatch = 0,
                                               !.totalMatches = 0]
         /\ calls' = <<>>
         /\ UNCHANGED <<dom, allMatchesRef, currentContainerRef, term>>
    ELSE LET found == optionsOnSearch(Backend, query, options)
             searchMatches == found.result
         IN  /\ matches' = searchMatches
             /\ searchState' = [searchState EXCEPT
                    !.query = query,
                    !.currentMatch = IF Len(searchMatches) > 0 THEN 1 ELSE 0,
                    !.totalMatches = Len(searchMatches)]
             /\ IF Len(searchMatches) > 0
                THEN /\ SetBackend(optionsOnNavigate(found.b, <<searchMatches[1]>>, "next"))
                     /\ calls' = <<SearchCall(query, options, searchMatches),
                                   NavigateCall(searchMatches[1], "next")>>
                ELSE /\ SetBackend(found.b)
                     /\ calls' = <<SearchCall(query, options, searchMatches)>>

\* the rest of performSearch once options.onSearch has returned
\* searchMatches and left the backend in the state b
StoreSearchMatches(query, options, searchMatches, b) ==
    /\ matches' = searchMatches
    /\ searchState' = [searchState EXCEPT
           !.query = query,
           !.currentMatch = IF Len(searchMatches) > 0 THEN 1 ELSE 0,
           !.totalMatches = Len(searchMatches)]
    /\ IF Len(searchMatches) > 0
       THEN /\ SetBackend(optionsOnNavigate(b, <<searchMatches[1]>>, "next"))
            /\ calls' = <<SearchCall(query, options, searchMatches),
                          NavigateCall(searchMatches[1], "next")>>
       ELSE /\ SetBackend(b)
            /\ calls' = <<SearchCall(query, options, searchMatches)>>

\* the rest of performSearch once options.onSearch has returned found
StoreFound(query, options, found) ==
    StoreSearchMatches(query, options, found.result, found.b)

\* performSearch of the render whose searchState held the given options
performSearch(query, options) ==
    IF TrimsToEmpty(query)
    THEN /\ matches' = <<>>
         /\ searchState' = [searchState EXCEPT !.query = query,
                                               !.currentMatch = 0,
                                               !.totalMatches = 0]
         /\ calls' = <<>>
         /\ UNCHANGED <<dom, allMatchesRef, currentContainerRef, term>>
    ELSE StoreFound(query, options, optionsOnSearch(Backend, query, options))

\* the overlay and the key handler offer every operation but open only while
\* the search is open
Offered == searchState.isOpen

openSearch ==
    /\ searchState' = [searchState EXCEPT !.isOpen = TRUE]
    /\ calls' = <<>>
    /\ navRun' = NoRun
    /\ UNCHANGED <<matches, timers, backend, dom, mounted, term, allMatchesRef,
                   currentContainerRef>>
    /\ lastOp' = "open"
    /\ UNCHANGED <<hlVars, findVars>>

closeSearch ==
    /\ Offered
    /\ searchState' = [searchState EXCEPT !.isOpen = FALSE, !.query = <<>>,
                                          !.currentMatch = 0, !.totalMatches = 0]
    /\ matches' = <<>>
    /\ SetBackend(optionsOnClose(Backend))
    /\ calls' = <<CloseCall>>
    /\ navRun' = NoRun
    /\ UNCHANGED <<timers, backend, mounted>>
    /\ lastOp' = "close"
    /\ UNCHANGED <<hlVars, findVars>>

setQuery(query) ==
    /\ Offered
    /\ performSearch(query, [caseSensitive |-> searchState.caseSensitive,
                             wholeWord |-> searchState.wholeWord])
    /\ navRun' = NoRun
    /\ UNCHANGED <<timers, backend, mounted>>
    /\ lastOp' = "setQuery"
    /\ UNCHANGED <<hlVars, findVars>>

\* Mutant of NewIndex: "next" does not wrap.
NewIndexNoWrap(direction) ==
    IF direction = "next" THEN searchState.currentMatch + 1
    ELSE IF searchState.currentMatch <= 1 THEN Len(matches)
         ELSE searchState.currentMatch - 1

\* Mutant of NewIndex: "prev" stops at the first match instead of wrapping.
NewIndexPrevClamps(direction) ==
    IF direction = "next"
    THEN IF searchState.currentMatch >= Len(matches) THEN 1
         ELSE searchState.currentMatch + 1
    ELSE IF searchState.currentMatch <= 1 THEN 1
         ELSE searchState.currentMatch - 1

\* Mutant of NewIndex: "next" wraps one match early.
NewIndexWrapsEarly(direction) ==
    IF direction = "next"
    THEN IF searchState.currentMatch >= Len(matches) - 1 THEN 1
         ELSE searchState.currentMatch + 1
    ELSE IF searchState.currentMatch <= 1 THEN Len(matches)
         ELSE searchState.currentMatch - 1

NewIndex(direction) ==
    IF direction = "next"
    THEN IF searchState.currentMatch >= Len(matches) THEN 1
         ELSE searchState.currentMatch + 1
    ELSE IF searchState.currentMatch <= 1 THEN Len(matches)
         ELSE searchState.currentMatch - 1

\* the run of navigations in one direction that started at currentMatch = 1
NextRun(direction, newIndex) ==
    IF navRun.dir = direction /\ Len(navRun.seq) < Len(matches)
    THEN [navRun EXCEPT !.seq = Append(@, newIndex)]
    ELSE IF searchState.currentMatch = 1
         THEN [dir |-> direction, seq |-> <<newIndex>>]
         ELSE NoRun

navigateToMatch(direction) ==
    /\ Offered
    /\ IF Len(matches) = 0
       THEN /\ calls' = <<>>
            /\ navRun' = NoRun
            /\ UNCHANGED <<searchState, dom, allMatchesRef, currentContainerRef, term>>
       ELSE LET newIndex == NewIndex(direction)
                match == IF newIndex - 1 \in 0..(Len(matches) - 1)
                         THEN <<matches[newIndex]>> ELSE <<>>
            IN  /\ searchState' = [searchState EXCEPT !.currentMatch = newIndex]
                /\ navRun' = NextRun(direction, newIndex)
                /\ IF match # <<>>
                   THEN /\ SetBackend(optionsOnNavigate(Backend, match, direction))
                        /\ calls' = <<NavigateCall(match[1], direction)>>
                   ELSE /\ calls' = <<>>
                        /\ UNCHANGED <<dom, allMatchesRef, currentContainerRef, term>>
    /\ UNCHANGED <<matches, timers, backend, mounted>>
    /\ lastOp' = "navigate"
    /\ UNCHANGED <<hlVars, findVars>>

\* the navigateToMatch that useTerminalSearch hands to its overlay in place of
\* the one of useSearch
navigateInTerminal(direction) ==
    /\ Offered
    /\ backend = "terminal"
    /\ SetBackend(searchInTerminal(Backend, searchState.query, direction,
                                   [caseSensitive |-> searchState.caseSensitive,
                                    wholeWord |-> searchState.wholeWord]))
    /\ calls' = <<>>
    /\ navRun' = NoRun
    /\ UNCHANGED <<searchState, matches, timers, backend, mounted>>
    /\ lastOp' = "navigateInTerminal"
    /\ UNCHANGED <<hlVars, findVars>>

\* The callback handed to setTimeout calls the performSearch that the toggle
\* closed over: the one of the render in which the toggle was created, whose
\* searchState is the state before the flip.
ScheduledSearch(prev) ==
    [query |-> prev.query,
     caseSensitive |-> prev.caseSensitive,
     wholeWord |-> prev.wholeWord]

Toggle(name, newState) ==
    /\ Offered
    /\ searchState.query # <<>> => Len(timers) < MaxTimers
    /\ searchState' = newState
    /\ timers' = IF searchState.query # <<>>
                 THEN Append(timers, ScheduledSearch(searchState))
                 ELSE timers
    /\ calls' = <<>>
    /\ navRun' = NoRun
    /\ UNCHANGED <<matches, backend, dom, mounted, term, allMatchesRef, currentContainerRef>>
    /\ lastOp' = name
    /\ UNCHANGED <<hlVars, findVars>>

toggleCaseSensitive ==
    Toggle("toggleCaseSensitive", [searchState EXCEPT !.caseSensitive = ~searchState.caseSensitive])

toggleWholeWord ==
    Toggle("toggleWholeWord", [searchState EXCEPT !.wholeWord = ~searchState.wholeWord])

\* the oldest pending setTimeout callback runs
TimerFires ==
    /\ timers # <<>>
    /\ performSearch(Head(timers).query,
                     [caseSensitive |-> Head(timers).caseSensitive,
                      wholeWord |-> Head(timers).wholeWord])
    /\ timers' = Tail(timers)
    /\ navRun' = NoRun
    /\ UNCHANGED <<backend, mounted>>
    /\ lastOp' = "timer"
    /\ UNCHANGED <<hlVars, findVars>>

(***************************************************************************)
(* The navigation specification.                                           *)
(***************************************************************************)
\* what the user can type into the search input: nothing, a blank, "ab"
Queries == {<<>>, <<" ">>, <<"a", "b">>}

\* The container the search is opened on holds two searchable elements: the
\* first with the single Text node "ab", the second with three adjacent Text
\* nodes "a", "b", "Ab" (as rendered for {x}{y}{z}).  In the second, the
\* occurrence of "ab" at offsets 0..2 lies across two leaves and the one at
\* 2..4 differs in case.
Documents ==
    { << <<TextNode(<<"a", "b">>)>>,
         <<TextNode(<<"a">>), TextNode(<<"b">>), TextNode(<<"A", "b">>)>> >> }

InitialSearchState ==
    [isOpen |-> FALSE, query |-> <<>>, currentMatch |-> 0, totalMatches |-> 0,
     caseSensitive |-> FALSE, wholeWord |-> FALSE]

\* the terminal is not there; it came after the effect that loads the addon
\* had run; it was there and the addon is loaded
Terminals ==
    { [terminal |-> FALSE, addon |-> FALSE, selection |-> Undefined],
      [terminal |-> TRUE, addon |-> FALSE, selection |-> Undefined],
      [terminal |-> TRUE, addon |-> TRUE, selection |-> Undefined] }

NoTerminal == [terminal |-> FALSE, addon |-> FALSE, selection |-> Undefined]

NavInit ==
    /\ searchState = InitialSearchState
    /\ matches = <<>>
    /\ timers = <<>>
    /\ backend \in {"document", "terminal"}
    /\ IF backend = "document"
       THEN dom \in Documents /\ mounted \in BOOLEAN /\ term = NoTerminal
       ELSE dom = <<>> /\ mounted = FALSE /\ term \in Terminals
    /\ allMatchesRef = <<>>
    /\ currentContainerRef = FALSE
    /\ lastOp = "init"
    /\ calls = <<>>
    /\ navRun = NoRun

HlIdle ==
    /\ hlTree = <<>>
    /\ hlOrig = <<>>
    /\ hlMatches = <<>>
    /\ hlCur = Undefined
    /\ hlOnce = <<>>
    /\ hlLog = <<>>

FindIdle ==
    /\ fTree = <<>>
    /\ fQuery = <<>>
    /\ fOptions = [caseSensitive |-> FALSE, wholeWord |-> FALSE]
    /\ fMatches = <<>>
    /\ fDone = FALSE
    /\ fLastIndex = 0

Init == NavInit /\ HlIdle /\ FindIdle

Next ==
    \/ openSearch
    \/ closeSearch
    \/ \E query \in Queries : setQuery(query)
    \/ \E direction \in {"next", "prev"} : navigateToMatch(direction)
    \/ \E direction \in {"next", "prev"} : navigateInTerminal(direction)
    \/ toggleCaseSensitive
    \/ toggleWholeWord
    \/ TimerFires

Spec == Init /\ [][Next]_vars

(***************************************************************************)
(* The renderer specification: highlightMatches and removeHighlights       *)
(* applied, in any order, to a subtree and a match list drawn from bounded *)
(* sets.                                                                   *)
(***************************************************************************)
\* a match list holds at most this many matches
MaxHlMatches == 2
\* at most this many renderer calls are applied in a row
MaxHlCalls == 3

\* The subtrees: one leaf; two adjacent leaves; a leaf followed by a nested
\* element with two adjacent leaves; a script element followed by a leaf.
HlTrees ==
    { <<TextNode(<<"a", "b">>)>>,
      <<TextNode(<<"a">>), TextNode(<<"b">>)>>,
      <<TextNode(<<"a">>), ContentElement(<<TextNode(<<"b">>), TextNode(<<"a">>)>>)>>,
      <<ScriptElement(<<TextNode(<<"a">>)>>), TextNode(<<"a", "b">>)>> }

\* every span [startIndex, endIndex) of a text of the given length
Spans(length) == {sp \in (0..length) \X (0..length) : sp[1] <= sp[2]}

SeqsUpTo(S, n) == UNION {[1..k -> S] : k \in 0..n}

\* the match list with the given spans in the flat text of the tree, with the
\* ids of the group "m"
MatchList(tree, spans) ==
    AsSeq([n \in DOMAIN spans |->
        [id |-> MatchId("m", n - 1), element |-> 0,
         text |-> Substring(FlatText(tree), spans[n][1], spans[n][2]),
         startIndex |-> spans[n][1], endIndex |-> spans[n][2]]])

NavIdle ==
    /\ searchState = InitialSearchState
    /\ matches = <<>>
    /\ timers = <<>>
    /\ backend = "document"
    /\ dom = <<>>
    /\ mounted = FALSE
    /\ term = NoTerminal
    /\ allMatchesRef = <<>>
    /\ currentContainerRef = FALSE
    /\ lastOp = "init"
    /\ calls = <<>>
    /\ navRun = NoRun

\* the queries whose matches the renderer is given: "a", "b"
HlQueries == {<<"a">>, <<"b">>}

\* the match list is any list of spans, or what findTextMatches finds in the
\* subtree for a query
HlInit ==
    /\ hlOrig \in HlTrees
    /\ hlTree = hlOrig
    /\ \/ \E spans \in SeqsUpTo(Spans(Len(FlatText(hlOrig))), MaxHlMatches) :
              hlMatches = MatchList(hlOrig, spans)
       \/ \E query \in HlQueries :
              hlMatches = findTextMatches(0, hlOrig, query,
                                          [caseSensitive |-> FALSE, wholeWord |-> FALSE], "m")
    /\ hlCur \in {Undefined} \cup (0..(MaxHlMatches - 1))
    /\ hlOnce = <<>>
    /\ hlLog = <<>>

HlHighlight ==
    /\ Len(hlLog) < MaxHlCalls
    /\ hlTree' = highlightMatches(hlTree, hlMatches, hlCur)
    /\ hlOnce' = IF hlLog = <<>> THEN hlTree' ELSE hlOnce
    /\ hlLog' = Append(hlLog, "highlight")
    /\ UNCHANGED <<hlOrig, hlMatches, hlCur>>
    /\ UNCHANGED <<navVars, findVars>>

HlRemove ==
    /\ Len(hlLog) < MaxHlCalls
    /\ hlTree' = removeHighlights(hlTree)
    /\ hlLog' = Append(hlLog, "remove")
    /\ UNCHANGED <<hlOrig, hlMatches, hlCur, hlOnce>>
    /\ UNCHANGED <<navVars, findVars>>

InitHL == NavIdle /\ HlInit /\ FindIdle

NextHL == HlHighlight \/ HlRemove

SpecHL == InitHL /\ [][NextHL]_vars

(***************************************************************************)
(* The matcher specification: findTextMatches applied to an element, a     *)
(* query and options drawn from bounded sets.                              *)
(***************************************************************************)
\* "foo FOO Foo"
FooText == <<"f", "o", "o", " ", "F", "O", "O", " ", "F", "o", "o">>
\* "cats catalog cat"
CatText == <<"c", "a", "t", "s", " ", "c", "a", "t", "a", "l", "o", "g", " ", "c", "a", "t">>

\* The elements: the two texts above in one leaf each; "cat" and "s cat" in two
\* adjacent leaves; "aaa"; "a.b ab"; a script element holding "cat" followed
\* by the leaf "a cat".
FindTrees ==
    { <<TextNode(FooText)>>,
      <<TextNode(CatText)>>,
      <<TextNode(<<"c", "a", "t">>), TextNode(<<"s", " ", "c", "a", "t">>)>>,
      <<TextNode(<<"a", "a", "a">>)>>,
      <<TextNode(<<"a", ".", "b", " ", "a", "b">>)>>,
      <<ScriptElement(<<TextNode(<<"c", "a", "t">>)>>), TextNode(<<"a", " ", "c", "a", "t">>)>> }

\* the queries: "Foo", "cat", "CAT", "aa", "a.b", "." and the empty string
FindQueries ==
    { <<"F", "o", "o">>, <<"c", "a", "t">>, <<"C", "A", "T">>, <<"a", "a">>,
      <<"a", ".", "b">>, <<".">>, <<>> }

FindInit ==
    /\ fTree \in FindTrees
    /\ fQuery \in FindQueries
    /\ fOptions \in [caseSensitive : BOOLEAN, wholeWord : BOOLEAN]
    /\ fMatches = <<>>
    /\ fDone = FALSE
    /\ fLastIndex = 0

FindRun ==
    /\ ~fDone
    /\ fMatches' = findTextMatches(0, fTree, fQuery, fOptions, "group")
    /\ fDone' = TRUE
    /\ fLastIndex' = 0
    /\ UNCHANGED <<fTree, fQuery, fOptions>>
    /\ UNCHANGED <<navVars, hlVars>>

InitFind == NavIdle /\ HlIdle /\ FindInit

NextFind == FindRun

SpecFind == InitFind /\ [][NextFind]_vars

(***************************************************************************)
(* The matcher loop specification: the while loop of findTextMatches, one  *)
(* iteration per step.                                                     *)
(***************************************************************************)
\* a match list holds at most this many matches (the longest flat text has 16
\* characters, so the empty pattern matches 17 times in it)
MaxFindMatches == 17

\* Mutant of LastIndexAfter: lastIndex is left where exec put it.
LastIndexAfterNoBump(match) == match.end

\* regex.lastIndex at the end of the loop body: exec left it at the end of the
\* match, and a zero-length match (match.index === regex.lastIndex) moves it on
LastIndexAfter(match) ==
    IF match.index = match.end THEN match.end + 1 ELSE match.end

\* One evaluation of the loop test and, unless exec returned null, of the body;
\* text is the flat text of the element, match what regex.exec(text) returns.
\* exec returns null, and resets lastIndex to 0, when lastIndex is beyond the
\* text or nothing matches at or after it.
FindStep ==
    /\ ~fDone
    /\ \E text \in {extractTextContent(fTree)} :
       \E match \in {RegexExec(createSearchRegex(fQuery, fOptions), text, fLastIndex)} :
           IF fLastIndex > Len(text) \/ match.index = -1
           THEN /\ fDone' = TRUE
                /\ fLastIndex' = 0
                /\ UNCHANGED fMatches
           ELSE /\ Len(fMatches) < MaxFindMatches
                /\ fMatches' = Append(fMatches,
                                      [id |-> MatchId("group", Len(fMatches)),
                                       element |-> 0,
                                       text |-> Substring(text, match.index, match.end),
                                       startIndex |-> match.index,
                                       endIndex |-> match.end])
                /\ fLastIndex' = LastIndexAfter(match)
                /\ UNCHANGED fDone
    /\ UNCHANGED <<fTree, fQuery, fOptions>>
    /\ UNCHANGED <<navVars, hlVars>>

InitFindLoop == NavIdle /\ HlIdle /\ FindInit

NextFindLoop == FindStep

\* findTextMatches is synchronous: once entered, its loop runs on until it
\* exits
SpecFindLoop == InitFindLoop /\ [][NextFindLoop]_vars /\ WF_vars(FindStep)

(***************************************************************************)
(* Claims.                                                                 *)
(***************************************************************************)
CurrentOptions ==
    [caseSensitive |-> searchState.caseSensitive, wholeWord |-> searchState.wholeWord]

\* every decoration in the container, in document order
AllDecorations(d) == Concat(AsSeq([i \in DOMAIN d |-> Decorations(d[i])]))

\* what the backend's search returns for the query and options on the container
SearchResult(query, options) == optionsOnSearch(Backend, query, options).result

\* C1: in every reachable state, totalMatches > 0 implies
\* 1 <= currentMatch <= totalMatches, and currentMatch = 0 exactly when
\* totalMatches = 0.
C1_CurrentMatchInRange ==
    /\ searchState.totalMatches > 0 =>
           /\ 1 <= searchState.currentMatch
           /\ searchState.currentMatch <= searchState.totalMatches
    /\ searchState.currentMatch = 0 <=> searchState.totalMatches = 0

\* C1 witness: navigation has reached the last of three matches.
C1_Witness ==
    /\ lastOp = "navigate"
    /\ searchState.totalMatches = 3
    /\ searchState.currentMatch = 3

\* C2 (as claimed): when the re-search scheduled by a toggle runs, with the
\* query unchanged since the toggle, the stored match list and totalMatches are
\* what the backend's search returns for the query under the option values
\* held in the state.
C2_ResearchUsesNewOptions ==
    [][(/\ TimerFires
        /\ searchState.isOpen
        /\ Len(timers) = 1
        /\ Head(timers).query = searchState.query
        /\ ~TrimsToEmpty(searchState.query))
       => (/\ matches' = SearchResult(searchState.query, CurrentOptions)
           /\ searchState'.totalMatches =
                  Len(SearchResult(searchState.query, CurrentOptions)))]_vars

\* C3 (as claimed): a re-search scheduled by a toggle that runs after a later
\* query change does not overwrite the query and results of that change.
C3_StaleResearchNeverOverwrites ==
    [][(/\ TimerFires
        /\ searchState.isOpen
        /\ Len(timers) = 1
        /\ ~TrimsToEmpty(Head(timers).query)
        /\ Head(timers).query # searchState.query)
       => (/\ searchState'.query = searchState.query
           /\ searchState'.totalMatches = searchState.totalMatches
           /\ matches' = matches)]_vars

\* C4: setQuery(q) with q not blank calls the backend's search with q and the
\* state's options; afterwards the match list is the returned list,
\* totalMatches its length, currentMatch 1 if it is non-empty and 0 otherwise,
\* and the backend's navigate is called, with the first match and "next",
\* exactly when the list is non-empty.
C4_SetQueryStoresSearchResult ==
    [][\A q \in Queries :
          (~TrimsToEmpty(q) /\ lastOp' = "setQuery" /\ setQuery(q)) =>
             /\ Len(calls') >= 1
             /\ calls'[1] = SearchCall(q, CurrentOptions, SearchResult(q, CurrentOptions))
             /\ matches' = calls'[1].result
             /\ searchState'.totalMatches = Len(calls'[1].result)
             /\ searchState'.currentMatch = (IF calls'[1].result # <<>> THEN 1 ELSE 0)
             /\ IF calls'[1].result # <<>>
                THEN calls' = <<calls'[1], NavigateCall(calls'[1].result[1], "next")>>
                ELSE Len(calls') = 1]_vars

\* C4 witness: a setQuery under caseSensitive found two matches.
C4_Witness ==
    /\ lastOp = "setQuery"
    /\ searchState.caseSensitive
    /\ searchState.totalMatches = 2
    /\ Len(calls) = 2

\* C5: navigate(direction) with a non-empty match list moves currentMatch one
\* step with wraparound and calls the backend's navigate with the match at the
\* new index and the same direction; with an empty list it changes nothing and
\* calls nothing.
C5_NavigateStepsWithWraparound ==
    [][\A direction \in {"next", "prev"} :
          navigateToMatch(direction) =>
             IF matches # <<>>
             THEN /\ searchState'.currentMatch =
                        (IF direction = "next"
                         THEN IF searchState.currentMatch = searchState.totalMatches
                              THEN 1 ELSE searchState.currentMatch + 1
                         ELSE IF searchState.currentMatch = 1
                              THEN searchState.totalMatches
                              ELSE searchState.currentMatch - 1)
                  /\ searchState'.currentMatch \in DOMAIN matches
                  /\ calls' = <<NavigateCall(matches[searchState'.currentMatch], direction)>>
             ELSE /\ calls' = <<>>
                  /\ UNCHANGED <<searchState, matches, timers, backend, dom, mounted,
                                 term, allMatchesRef, currentContainerRef>>]_vars

\* C5 witness: "prev" at the first of three matches has wrapped to the last.
C5_Witness ==
    /\ lastOp = "navigate"
    /\ calls # <<>>
    /\ calls[1].direction = "prev"
    /\ navRun.seq = <<3>>
    /\ searchState.currentMatch = 3

\* C6: N navigations in one direction from currentMatch = 1, N = totalMatches,
\* end at currentMatch = 1 and visit every index 1..N exactly once.
C6_WraparoundVisitsAll ==
    (navRun.dir # "" /\ Len(navRun.seq) = searchState.totalMatches) =>
        /\ navRun.seq[Len(navRun.seq)] = 1
        /\ searchState.currentMatch = 1
        /\ Range(navRun.seq) = 1..searchState.totalMatches

\* C6 witness: a full round of three "next" navigations.
C6_Witness ==
    /\ navRun.dir = "next"
    /\ Len(navRun.seq) = 3
    /\ searchState.totalMatches = 3

\* C7: close() leaves isOpen false, the query empty, both counters 0 and the
\* match list empty, calls the backend's close, leaves no decoration in the
\* container and keeps caseSensitive and wholeWord.
C7_CloseResets ==
    [][closeSearch =>
          /\ searchState' = [InitialSearchState EXCEPT
                                !.caseSensitive = searchState.caseSensitive,
                                !.wholeWord = searchState.wholeWord]
          /\ matches' = <<>>
          /\ calls' = <<CloseCall>>
          /\ AllDecorations(dom') = <<>>]_vars

\* C7 witness: a close after which the three leaves of the second element are
\* one, as left by the removal of its decoration.
C7_Witness ==
    /\ lastOp = "close"
    /\ backend = "document"
    /\ ~searchState.isOpen
    /\ Len(dom[2]) = 1

\* C8: setQuery(q) with q blank clears the match list and both counters
\* without calling the backend, and keeps isOpen, caseSensitive and wholeWord.
C8_BlankQueryClears ==
    [][\A q \in Queries :
          ((\A i \in DOMAIN q : q[i] \in WhiteSpace) /\ lastOp' = "setQuery" /\ setQuery(q)) =>
             /\ matches' = <<>>
             /\ searchState' = [searchState EXCEPT !.query = q,
                                                   !.currentMatch = 0,
                                                   !.totalMatches = 0]
             /\ searchState'.isOpen
             /\ calls' = <<>>]_vars

\* C8 witness: a blank query was set after a search that had found matches.
C8_Witness ==
    /\ lastOp = "setQuery"
    /\ searchState.query = <<" ">>
    /\ searchState.totalMatches = 0
    /\ allMatchesRef # <<>>

\* the offsets [start, end] of the leaves of a subtree in its flat text
RECURSIVE LeafRanges(_, _)
LeafRanges(texts, offset) ==
    IF texts = <<>> THEN {}
    ELSE {<<offset, offset + Len(Head(texts))>>}
         \cup LeafRanges(Tail(texts), offset + Len(Head(texts)))

\* every match of the list lies within one leaf of the subtree
NoMatchCrossesLeaf(tree, ms) ==
    \A i \in DOMAIN ms :
        \E r \in LeafRanges(WalkTextNodes(tree), 0) :
            ms[i].startIndex >= r[1] /\ ms[i].endIndex <= r[2]

\* C9: for a match list that crosses no leaf boundary, every sequence of
\* highlightMatches and removeHighlights, in particular highlightMatches alone
\* and removeHighlights after highlightMatches, leaves the flat text of the
\* subtree as it was.
C9_RoundTripKeepsFlatText ==
    NoMatchCrossesLeaf(hlOrig, hlMatches) => FlatText(hlTree) = FlatText(hlOrig)

\* C9 witness: removeHighlights has removed the decorations highlightMatches made.
C9_Witness ==
    /\ hlLog = <<"highlight", "remove">>
    /\ NoMatchCrossesLeaf(hlOrig, hlMatches)
    /\ Len(Decorations(hlOnce)) = 2
    /\ Decorations(hlTree) = <<>>

\* a match list as the matcher makes them: non-empty spans in increasing,
\* non-overlapping order
WellFormed(ms) ==
    /\ \A i \in DOMAIN ms : ms[i].startIndex < ms[i].endIndex
    /\ \A i \in 1..(Len(ms) - 1) : ms[i].endIndex <= ms[i + 1].startIndex

DecorationIds(tree) == {Decorations(tree)[i].id : i \in DOMAIN Decorations(tree)}
CurrentIds(tree) ==
    {Decorations(tree)[i].id : i \in {j \in DOMAIN Decorations(tree) : Decorations(tree)[j].cur}}

\* C10 (as claimed): highlightMatches called twice in succession with the same
\* arguments leaves the same visible text, the same decorations by match id
\* and the same current decoration as one call.
C10_HighlightIdempotent ==
    (/\ hlLog = <<"highlight", "highlight">>
     /\ WellFormed(hlMatches)
     /\ NoMatchCrossesLeaf(hlOrig, hlMatches)) =>
        /\ FlatText(hlTree) = FlatText(hlOnce)
        /\ DecorationIds(hlTree) = DecorationIds(hlOnce)
        /\ CurrentIds(hlTree) = CurrentIds(hlOnce)

\* the span [start, end) in the flat text, and the id, of every decoration
\* below the given child list entered at the given offset
RECURSIVE DecorationRanges(_, _)
DecorationRanges(nodes, offset) ==
    IF nodes = <<>> THEN {}
    ELSE LET n == Head(nodes) IN
         (IF n.k = "hl" THEN {<<offset, offset + Len(n.t), n.id>>}
          ELSE IF IsContainerNode(n) THEN DecorationRanges(n.kids, offset)
          ELSE {})
         \cup DecorationRanges(Tail(nodes), offset + Len(FlatText(<<n>>)))

\* the span of the match lies within no single leaf of the subtree
CrossesLeaf(tree, m) ==
    ~\E r \in LeafRanges(WalkTextNodes(tree), 0) :
        m.startIndex >= r[1] /\ m.endIndex <= r[2]

\* C11 (as claimed): after a search on the container as first rendered, a
\* match whose span lies within no single leaf of its element is in the
\* returned list and counted in totalMatches, but no decoration carries its id
\* and no decoration covers part of its span.
C11_CrossBoundaryMatchUndecorated ==
    [][\A q \in Queries :
          (~TrimsToEmpty(q) /\ lastOp' = "setQuery" /\ dom \in Documents /\ setQuery(q)) =>
             \A i \in DOMAIN matches' :
                 LET m == matches'[i]
                 IN  CrossesLeaf(dom[m.element + 1], m) =>
                        /\ searchState'.totalMatches = Len(matches')
                        /\ ~HasDecoration(dom'[m.element + 1], m.id)
                        /\ \A d \in DecorationRanges(dom'[m.element + 1], 0) :
                               d[2] <= m.startIndex \/ d[1] >= m.endIndex]_vars

\* the surface the backend works on is missing
Unavailable ==
    \/ backend = "document" /\ ~mounted
    \/ backend = "terminal" /\ (~term.terminal \/ ~term.addon)

\* C12: while the backend's surface is missing, setQuery(q) with q not blank
\* gets the empty list from the backend's search and ends with no match,
\* totalMatches = 0 and currentMatch = 0; search, navigate and close leave the
\* backend's state as it was; and setQuery, navigate and close stay enabled.
C12_UnavailableBackendYieldsNoMatch ==
    [][(Unavailable /\ searchState.isOpen) =>
          /\ \A q \in Queries :
                (~TrimsToEmpty(q) /\ lastOp' = "setQuery" /\ setQuery(q)) =>
                    /\ calls' = <<SearchCall(q, CurrentOptions, <<>>)>>
                    /\ matches' = <<>>
                    /\ searchState'.totalMatches = 0
                    /\ searchState'.currentMatch = 0
                    /\ searchState'.isOpen
                    /\ UNCHANGED <<dom, term, allMatchesRef, currentContainerRef>>
          /\ \A direction \in {"next", "prev"} :
                (navigateToMatch(direction) \/ navigateInTerminal(direction)) =>
                    UNCHANGED <<dom, term, allMatchesRef, currentContainerRef>>
          /\ closeSearch => UNCHANGED <<dom, term, allMatchesRef, currentContainerRef>>
          /\ ENABLED (\E q \in Queries : setQuery(q))
          /\ ENABLED navigateToMatch("next")
          /\ ENABLED closeSearch]_vars

\* C12 witness: "ab" was searched for on a document whose container is missing.
C12_Witness ==
    /\ lastOp = "setQuery"
    /\ backend = "document"
    /\ ~mounted
    /\ dom \in Documents
    /\ searchState.query = <<"a", "b">>
    /\ searchState.totalMatches = 0
    /\ Len(calls) = 1

\* the spans [startIndex, endIndex) of a match list, in order
SpansOf(ms) == AsSeq([i \in DOMAIN ms |-> <<ms[i].startIndex, ms[i].endIndex>>])

\* the text with every upper-case letter replaced by its lower-case letter
Fold(s) == AsSeq([i \in DOMAIN s |-> Canonicalize(s[i])])

\* the query occurs in the text at offset p, compared exactly or ignoring case
IsOccurrence(text, q, p, exact) ==
    /\ p + Len(q) <= Len(text)
    /\ IF exact THEN SubSeq(text, p + 1, p + Len(q)) = q
       ELSE Fold(SubSeq(text, p + 1, p + Len(q))) = Fold(q)

\* C13: without wholeWord, the matches of findTextMatches are occurrences of
\* the query in the flat text, compared ignoring letter case when caseSensitive
\* is false and exactly when it is true, and every occurrence is a match or
\* overlaps an earlier match; "Foo" in "foo FOO Foo" has 3 matches with
\* caseSensitive = false and the single match 8..11 with caseSensitive = true.
C13_CaseSensitivity ==
    (fDone /\ ~fOptions.wholeWord) =>
        LET text == extractTextContent(fTree) IN
        /\ \A i \in DOMAIN fMatches :
               /\ IsOccurrence(text, fQuery, fMatches[i].startIndex, fOptions.caseSensitive)
               /\ fMatches[i].endIndex = fMatches[i].startIndex + Len(fQuery)
               /\ fMatches[i].text =
                      SubSeq(text, fMatches[i].startIndex + 1, fMatches[i].endIndex)
        /\ \A p \in 0..Len(text) :
               IsOccurrence(text, fQuery, p, fOptions.caseSensitive) =>
                   \E i \in DOMAIN fMatches :
                       \/ fMatches[i].startIndex = p
                       \/ fMatches[i].startIndex < p /\ p < fMatches[i].endIndex
        /\ (fTree = <<TextNode(FooText)>> /\ fQuery = <<"F", "o", "o">>) =>
               IF fOptions.caseSensitive
               THEN SpansOf(fMatches) = << <<8, 11>> >>
               ELSE SpansOf(fMatches) = << <<0, 3>>, <<4, 7>>, <<8, 11>> >>

\* C13 witness: the case-sensitive search for "Foo" in "foo FOO Foo" has run.
C13_Witness ==
    /\ fDone
    /\ fTree = <<TextNode(FooText)>>
    /\ fQuery = <<"F", "o", "o">>
    /\ fOptions = [caseSensitive |-> TRUE, wholeWord |-> FALSE]
    /\ Len(fMatches) = 1

\* exactly one of the characters before and after offset p is a word character
BoundaryAt(text, p) ==
    (p > 0 /\ text[p] \in WordChars) # (p < Len(text) /\ text[p + 1] \in WordChars)

\* C14: with wholeWord, every match of findTextMatches is an occurrence of the
\* query with a word boundary immediately before and immediately after it;
\* "cat" in "cats catalog cat" has the single match 13..16 with wholeWord = true
\* and 3 matches with wholeWord = false.
C14_WholeWord ==
    fDone =>
        LET text == extractTextContent(fTree) IN
        /\ fOptions.wholeWord =>
               \A i \in DOMAIN fMatches :
                   /\ IsOccurrence(text, fQuery, fMatches[i].startIndex,
                                   fOptions.caseSensitive)
                   /\ fMatches[i].endIndex = fMatches[i].startIndex + Len(fQuery)
                   /\ BoundaryAt(text, fMatches[i].startIndex)
                   /\ BoundaryAt(text, fMatches[i].endIndex)
        /\ (fTree = <<TextNode(CatText)>> /\ fQuery = <<"c", "a", "t">>) =>
               IF fOptions.wholeWord
               THEN SpansOf(fMatches) = << <<13, 16>> >>
               ELSE SpansOf(fMatches) = << <<0, 3>>, <<5, 8>>, <<13, 16>> >>

\* C14 witness: the whole-word search for "cat" in "cats catalog cat" has run.
C14_Witness ==
    /\ fDone
    /\ fTree = <<TextNode(CatText)>>
    /\ fQuery = <<"c", "a", "t">>
    /\ fOptions.wholeWord
    /\ Len(fMatches) = 1

\* C15 (as claimed): after highlightMatches, every match of the list whose
\* span lies within a single leaf of the subtree has a decoration tagged with
\* its id, also when several matches lie in the same leaf.
C15_EveryContainedMatchDecorated ==
    (hlLog = <<"highlight">> /\ WellFormed(hlMatches)) =>
        \A i \in DOMAIN hlMatches :
            ~CrossesLeaf(hlOrig, hlMatches[i]) => HasDecoration(hlTree, hlMatches[i].id)

\* the match list is what findTextMatches finds in the subtree for a query
MatchesFound ==
    \E query \in HlQueries :
        hlMatches = findTextMatches(0, hlOrig, query,
                                    [caseSensitive |-> FALSE, wholeWord |-> FALSE], "m")

\* C16 (as claimed): the leaves highlightMatches walks concatenate to the flat
\* string findTextMatches matched against, and after highlightMatches on the
\* matches findTextMatches found, the text each decoration wraps is the text
\* of the match whose id it carries.
C16_DecorationWrapsMatchText ==
    (hlLog = <<"highlight">> /\ MatchesFound) =>
        /\ FlatText(hlOrig) = extractTextContent(hlOrig)
        /\ \A i \in DOMAIN Decorations(hlTree) :
               \E j \in DOMAIN hlMatches :
                   /\ hlMatches[j].id = Decorations(hlTree)[i].id
                   /\ hlMatches[j].text = Decorations(hlTree)[i].t

\* C17 (as claimed): when a setQuery that yields matches has completed, what
\* the backend has marked current is the first match of the search: on the
\* document, the decoration of the first match and no other; on the terminal,
\* the occurrence that the search itself selected.
C17_FirstMatchIsCurrentAfterSetQuery ==
    [][\A q \in Queries :
          (~TrimsToEmpty(q) /\ lastOp' = "setQuery" /\ setQuery(q) /\ matches' # <<>>) =>
             IF backend = "terminal"
             THEN term'.selection =
                      optionsOnSearch(Backend, q, CurrentOptions).b.term.selection
             ELSE \A i \in DOMAIN AllDecorations(dom') :
                      AllDecorations(dom')[i].cur <=>
                          AllDecorations(dom')[i].id = matches'[1].id]_vars

\* the match id and the text of every decoration of the subtree, in order
DecorationTags(tree) ==
    AsSeq([i \in DOMAIN Decorations(tree) |-> <<Decorations(tree)[i].id, Decorations(tree)[i].t>>])

\* C18: a navigate on the document backend leaves, in every element, the
\* sequence of leaves, the flat text and the decorations with their match ids
\* and texts as they were; afterwards the current tag is on the decoration
\* that carries the target's id, if there is one, and on no other.
C18_NavigateOnlyRetags ==
    [][\A direction \in {"next", "prev"} :
          (backend = "document" /\ lastOp' = "navigate" /\ navigateToMatch(direction)) =>
             /\ Len(dom') = Len(dom)
             /\ \A e \in DOMAIN dom :
                    /\ WalkTextNodes(dom'[e]) = WalkTextNodes(dom[e])
                    /\ FlatText(dom'[e]) = FlatText(dom[e])
                    /\ DecorationTags(dom'[e]) = DecorationTags(dom[e])
             /\ IF matches = <<>> THEN dom' = dom
                ELSE \A i \in DOMAIN AllDecorations(dom') :
                         AllDecorations(dom')[i].cur <=>
                             AllDecorations(dom')[i].id = matches[searchState'.currentMatch].id]_vars

\* C18 witness: a navigate has moved the current tag to the decoration of the
\* second match.
C18_Witness ==
    /\ lastOp = "navigate"
    /\ backend = "document"
    /\ searchState.currentMatch = 2
    /\ Len(matches) = 3
    /\ \E i \in DOMAIN AllDecorations(dom) :
           /\ AllDecorations(dom)[i].cur
           /\ AllDecorations(dom)[i].id = matches[2].id

\* C19 (as claimed): highlightMatches followed by removeHighlights restores
\* the sequence of leaves the subtree had (as many leaves, each with its text)
\* and leaves no decoration, also where two leaves are adjacent siblings.
C19_RoundTripRestoresLeaves ==
    (/\ hlLog = <<"highlight", "remove">>
     /\ WellFormed(hlMatches)
     /\ NoMatchCrossesLeaf(hlOrig, hlMatches)) =>
        /\ WalkTextNodes(hlTree) = WalkTextNodes(hlOrig)
        /\ Decorations(hlTree) = <<>>

\* C20: on the document backend the matches of one element are in strictly
\* increasing startIndex order with non-overlapping spans, the n-th of them
\* (0-based) has the id "search-element-<i>-<n>", no two matches of the list
\* share an id, and running the search again after a setQuery, with the same
\* query and options, returns the same list.
C20_MatchIdentities ==
    backend = "document" =>
        /\ \A i, j \in DOMAIN matches : matches[i].id = matches[j].id => i = j
        /\ \A e \in DOMAIN dom :
               LET group == SelectSeq(matches, LAMBDA m : m.element = e - 1)
               IN  /\ \A n \in DOMAIN group :
                          group[n].id = "search-element-" \o ToString(e - 1)
                                            \o "-" \o ToString(n - 1)
                   /\ \A n \in 1..(Len(group) - 1) :
                          /\ group[n].startIndex < group[n + 1].startIndex
                          /\ group[n].endIndex <= group[n + 1].startIndex
        /\ (lastOp = "setQuery" /\ ~TrimsToEmpty(searchState.query)) =>
               SearchResult(searchState.query, CurrentOptions) = matches

\* C20 witness: a search has returned one match of the first element and two
\* of the second.
C20_Witness ==
    /\ lastOp = "setQuery"
    /\ backend = "document"
    /\ Len(matches) = 3
    /\ matches[1].id = "search-element-0-0"
    /\ matches[2].id = "search-element-1-0"
    /\ matches[3].id = "search-element-1-1"

\* C21: the loop of findTextMatches terminates for every flat text and every
\* pattern, the empty one included: every iteration that pushes a match moves
\* lastIndex strictly forward, to the end of the match or, after a zero-length
\* match, one character beyond it; the loop exits once lastIndex is beyond the
\* end of the text; and the list it has built when it exits is the one
\* findTextMatches returns.
C21_MatcherLoopTerminates ==
    /\ [][FindStep =>
             LET text == extractTextContent(fTree) IN
             /\ fLastIndex > Len(text) => fDone'
             /\ ~fDone' =>
                    LET m == fMatches'[Len(fMatches')] IN
                    /\ Len(fMatches') = Len(fMatches) + 1
                    /\ m.startIndex >= fLastIndex
                    /\ fLastIndex' > fLastIndex
                    /\ fLastIndex' = (IF m.startIndex = m.endIndex
                                      THEN m.endIndex + 1 ELSE m.endIndex)
                    /\ fLastIndex' <= Len(text) + 1
             /\ fDone' => fMatches' = findTextMatches(0, fTree, fQuery, fOptions, "group")]_vars
    /\ <>fDone

\* C21 witness: the loop has exited after the empty pattern matched at every
\* offset 0..3 of "aaa".
C21_Witness ==
    /\ fDone
    /\ fQuery = <<>>
    /\ fTree = <<TextNode(<<"a", "a", "a">>)>>
    /\ ~fOptions.wholeWord
    /\ SpansOf(fMatches) = << <<0, 0>>, <<1, 1>>, <<2, 2>>, <<3, 3>> >>

\* C22 (as claimed): in every reachable state in which the search is closed,
\* whatever the interleaving of the operations and the pending re-search
\* timers, the query is empty, totalMatches = 0, currentMatch = 0, the match
\* list is empty and the container holds no decoration.
C22_ClosedIsQuiescent ==
    ~searchState.isOpen =>
        /\ searchState.query = <<>>
        /\ searchState.totalMatches = 0
        /\ searchState.currentMatch = 0
        /\ matches = <<>>
        /\ AllDecorations(dom) = <<>>

\* C23 (as claimed): in every reachable state of the document backend, every
\* decoration in the container carries the id of a match of the stored match
\* list; so after a setQuery with a blank query, which leaves the list empty,
\* no decoration remains.
C23_DecorationsHaveStoredMatch ==
    backend = "document" =>
        \A i \in DOMAIN AllDecorations(dom) :
            \E j \in DOMAIN matches : matches[j].id = AllDecorations(dom)[i].id

\* the decorations of the container that carry the current tag
CurrentDecorations(d) ==
    {i \in DOMAIN AllDecorations(d) : AllDecorations(d)[i].cur}

\* C24: on the document backend, in every state at the end of a setQuery, a
\* navigate or a close, at most one decoration of the whole container carries
\* the current tag, and when totalMatches > 0 a decoration that carries it has
\* the id of the match at index currentMatch of the stored match list.
C24_SingleCurrentDecoration ==
    (backend = "document" /\ lastOp \in {"setQuery", "navigate", "close"}) =>
        /\ Cardinality(CurrentDecorations(dom)) <= 1
        /\ searchState.totalMatches > 0 =>
               \A i \in CurrentDecorations(dom) :
                   /\ searchState.currentMatch \in DOMAIN matches
                   /\ AllDecorations(dom)[i].id = matches[searchState.currentMatch].id

\* C24 witness: a navigate has moved the current tag from the decoration in
\* the first element to the one in the second, the only one that carries it.
C24_Witness ==
    /\ lastOp = "navigate"
    /\ backend = "document"
    /\ Len(AllDecorations(dom)) >= 2
    /\ Cardinality(CurrentDecorations(dom)) = 1
    /\ searchState.currentMatch = 2
    /\ \A i \in CurrentDecorations(dom) : AllDecorations(dom)[i].id = "search-element-1-0"

====
